---- MODULE Spec2Model ----
(***************************************************************************)
(* Model of the LRU cache of src/lru/src/main.rs: a HashMap from keys to   *)
(* reference-counted nodes and a doubly linked list of the same nodes.     *)
(* Nodes live in a heap (a sequence of node records); a NodeRef is an      *)
(* index into the heap and Null stands for Option::None.                   *)
(***************************************************************************)
EXTENDS Integers, Sequences, FiniteSets, TLC

\* ---------------------------------------------------------------- bounds
NumKeys == 3
NumVals == 2
MaxLimit == 2
MaxOps == 4
MaxOpsDeep == 6
MaxListOps == 7
MaxIndex == 3
MaxTreeVal == 3

Keys == 1..NumKeys
Vals == 1..NumVals

\* Option::None for node references and for returned values.
Null == 0
None == 0

VARIABLES
    heap,             \* every Node allocated so far, in allocation order
    list,             \* DoublyLinkedList: [head, tail, size]
    map,              \* HashMap<K, NodeRef>: key -> node or Null
    limit,            \* LRU.limit
    size,             \* LRU.size
    overflow_checks,  \* build profile: TRUE = usize overflow panics
    panicked,         \* a call panicked
    ret,              \* result of the last get
    last,             \* the last call: [op, key, val]
    before,           \* the call before the last one
    ref,              \* reference LRU cache run on the same calls
    promo,            \* the last promotion by get and what it still awaits
    nops,             \* number of calls made
    budget,           \* number of calls the run may make
    lnodes,           \* every Node of the LinkedList allocated so far
    ll,               \* LinkedList: [head, tail, size]
    lret,             \* Result of the last LinkedList::delete
    krate,            \* the crate the LinkedList is built from
    lopt,             \* Option<T> returned by the last pop or next_back
    shadow,           \* the elements the LinkedList should hold, in order
    iter,             \* the LinkedListIterator borrowing the list, if any
    cloned,           \* the LinkedList made by linked_list.clone(), if any
    tree,             \* BinaryTree.adjaceny_list
    pushed,           \* the values passed to BinaryTree::push, in order
    tret              \* Option returned by the last BinaryTree get / get_root

lvars == <<lnodes, ll, lret, krate, lopt, shadow, iter, cloned>>

tvars == <<tree, pushed, tret>>

TreeVals == 1..MaxTreeVal

Crates == {"linked_list", "doubly_linked_list"}

vars == <<heap, list, map, limit, size, overflow_checks, panicked, ret, last,
          before, ref, promo, nops, budget, lnodes, ll, lret, krate, lopt,
          shadow, iter, cloned, tree, pushed, tret>>

\* ------------------------------------------------------------ NodeRef
\* NodeRef::init: allocate a node with no links.
NodeRef_init(h, key, value) ==
    Append(h, [key |-> key, val |-> value, next |-> Null, prev |-> Null])

\* ----------------------------------------------------- DoublyLinkedList
\* A list value L carries the heap it points into and the build profile:
\* [heap, head, tail, size, checks, panic].
DoublyLinkedList_init == [head |-> Null, tail |-> Null, size |-> 0]

get_tail(L) == L.tail

\* DoublyLinkedList::insert_node
insert_node(L, new_head, new_node) ==
    LET prev == L.head
        h1 == IF prev # Null
                THEN [L.heap EXCEPT ![prev].prev = new_head]
                ELSE L.heap
        h2 == IF prev # Null
                THEN [h1 EXCEPT ![new_head].next = prev]
                ELSE h1
        t1 == IF prev # Null /\ L.size = 1 THEN prev ELSE L.tail
    IN  [L EXCEPT !.heap = h2,
                  !.head = new_head,
                  !.tail = t1,
                  !.size = IF new_node THEN L.size + 1 ELSE L.size]

\* DoublyLinkedList::insert
insert(L, key, value) ==
    LET h0 == NodeRef_init(L.heap, key, value)
    IN  insert_node([L EXCEPT !.heap = h0], Len(h0), TRUE)

\* DoublyLinkedList::requeue_node
requeue_node(L, node) ==
    LET prev_node == L.heap[node].prev
        next_node == L.heap[node].next
        h1 == IF prev_node # Null
                THEN [L.heap EXCEPT ![prev_node].next = next_node]
                ELSE L.heap
        h2 == [h1 EXCEPT ![node].prev = Null, ![node].next = Null]
        h3 == IF next_node # Null
                THEN [h2 EXCEPT ![next_node].prev = prev_node]
                ELSE h2
        t1 == IF L.tail # Null /\ h3[L.tail].key = h3[node].key
                THEN prev_node
                ELSE L.tail
    IN  insert_node([L EXCEPT !.heap = h3, !.tail = t1], node, FALSE)

\* DoublyLinkedList::remove
remove(L) ==
    IF L.tail = Null
      THEN L
      ELSE LET old_tail == L.tail
               new_tail == L.heap[old_tail].prev
               h1 == IF new_tail # Null
                       THEN [L.heap EXCEPT ![new_tail].next = Null]
                       ELSE L.heap
               h2 == [h1 EXCEPT ![old_tail].prev = Null]
               s1 == L.size - 1
           IN  IF L.size = 0 /\ L.checks
                 THEN [L EXCEPT !.heap = h2, !.tail = new_tail, !.panic = TRUE]
                 ELSE [L EXCEPT !.heap = h2,
                                !.tail = new_tail,
                                !.size = s1,
                                !.head = IF s1 = 0 THEN Null ELSE L.head]

\* ------------------------------------------------------------------ LRU
\* A cache value C: [heap, list, map, limit, size, checks, panic, ret].
\* usize counters are kept as their two's complement representative, so
\* 0 - 1 is -1 (usize::MAX) and -1 + 1 is 0 again.
WithList(C) ==
    [heap |-> C.heap, head |-> C.list.head, tail |-> C.list.tail,
     size |-> C.list.size, checks |-> C.checks, panic |-> FALSE]

PutList(C, L) ==
    [C EXCEPT !.heap = L.heap,
              !.list = [head |-> L.head, tail |-> L.tail, size |-> L.size],
              !.panic = L.panic]

LRU_init(lim, checks) ==
    [heap |-> <<>>, list |-> DoublyLinkedList_init,
     map |-> [k \in Keys |-> Null], limit |-> lim, size |-> 0,
     checks |-> checks, panic |-> FALSE, ret |-> None]

\* The eviction block of LRU::add (taken when size == limit).
evict(C) ==
    LET t == get_tail(WithList(C))
        m1 == IF t # Null THEN [C.map EXCEPT ![C.heap[t].key] = Null]
                          ELSE C.map
        L1 == remove(WithList(C))
        C1 == [PutList(C, L1) EXCEPT !.map = m1]
    IN  IF L1.panic THEN C1
        ELSE IF C.size = 0 /\ C.checks THEN [C1 EXCEPT !.panic = TRUE]
        ELSE [C1 EXCEPT !.size = C.size - 1]

\* LRU::add that returns for a resident key before touching the map.
add_keeps_old_mapping(C, key, value) ==
    LET h0 == NodeRef_init(C.heap, key, value)
        node == Len(h0)
        C0 == [C EXCEPT !.heap = h0]
        C1 == IF C0.size = C0.limit THEN evict(C0) ELSE C0
        old == C1.map[key]
        C2 == [C1 EXCEPT !.map[key] = node]
    IN  IF C1.panic THEN C1
        ELSE IF old # Null THEN C1
        ELSE [PutList(C2, insert_node(WithList(C2), node, TRUE))
                 EXCEPT !.size = C2.size + 1]

\* LRU::add that forgets to count the new entry.
add_forgets_size(C, key, value) ==
    LET h0 == NodeRef_init(C.heap, key, value)
        node == Len(h0)
        C0 == [C EXCEPT !.heap = h0]
        C1 == IF C0.size = C0.limit THEN evict(C0) ELSE C0
        old == C1.map[key]
        C2 == [C1 EXCEPT !.map[key] = node]
    IN  IF C1.panic THEN C1
        ELSE IF old # Null THEN C2
        ELSE PutList(C2, insert_node(WithList(C2), node, TRUE))

\* LRU::add that evicts only once size has passed limit.
add_evicts_late(C, key, value) ==
    LET h0 == NodeRef_init(C.heap, key, value)
        node == Len(h0)
        C0 == [C EXCEPT !.heap = h0]
        C1 == IF C0.size > C0.limit THEN evict(C0) ELSE C0
        old == C1.map[key]
        C2 == [C1 EXCEPT !.map[key] = node]
    IN  IF C1.panic THEN C1
        ELSE IF old # Null THEN C2
        ELSE [PutList(C2, insert_node(WithList(C2), node, TRUE))
                 EXCEPT !.size = C2.size + 1]

\* LRU::add that evicts whenever size has not passed limit.
add_evicts_below_limit(C, key, value) ==
    LET h0 == NodeRef_init(C.heap, key, value)
        node == Len(h0)
        C0 == [C EXCEPT !.heap = h0]
        C1 == IF C0.size <= C0.limit THEN evict(C0) ELSE C0
        old == C1.map[key]
        C2 == [C1 EXCEPT !.map[key] = node]
    IN  IF C1.panic THEN C1
        ELSE IF old # Null THEN C2
        ELSE [PutList(C2, insert_node(WithList(C2), node, TRUE))
                 EXCEPT !.size = C2.size + 1]

\* LRU::add
add(C, key, value) ==
    LET h0 == NodeRef_init(C.heap, key, value)
        node == Len(h0)
        C0 == [C EXCEPT !.heap = h0]
        C1 == IF C0.size = C0.limit THEN evict(C0) ELSE C0
        old == C1.map[key]
        C2 == [C1 EXCEPT !.map[key] = node]
    IN  IF C1.panic THEN C1
        ELSE IF old # Null THEN C2
        ELSE [PutList(C2, insert_node(WithList(C2), node, TRUE))
                 EXCEPT !.size = C2.size + 1]

\* LRU::get that touches the tail of the recency list on a miss.
get_requeues_on_miss(C, key) ==
    LET node == C.map[key]
        t == get_tail(WithList(C))
    IN  IF node # Null
          THEN [PutList(C, requeue_node(WithList(C), node))
                   EXCEPT !.ret = C.heap[node].val]
          ELSE IF t # Null
            THEN [PutList(C, requeue_node(WithList(C), t))
                     EXCEPT !.ret = None]
            ELSE [C EXCEPT !.ret = None]

\* LRU::get that takes the entry out of the map on a hit.
get_takes_entry(C, key) ==
    LET node == C.map[key]
    IN  IF node # Null
          THEN [PutList(C, requeue_node(WithList(C), node))
                   EXCEPT !.ret = C.heap[node].val, !.map[key] = Null]
          ELSE [C EXCEPT !.ret = None]

\* LRU::get
get(C, key) ==
    LET node == C.map[key]
    IN  IF node # Null
          THEN [PutList(C, requeue_node(WithList(C), node))
                   EXCEPT !.ret = C.heap[node].val]
          ELSE [C EXCEPT !.ret = None]

\* ------------------------------------------------------------ LinkedList
\* src/doubly_linked_list/src/linked_list.rs; push, get, head, tail and
\* delete of src/linked_list/src/linked_list.rs are the same code.
\* A list value L: [heap, head, tail, size, checks, panic, res].
\* size is a u32 kept as its two's complement representative.
ULess(a, b) == IF (a < 0) = (b < 0) THEN a < b ELSE b < 0

LinkedList_default == [head |-> Null, tail |-> Null, size |-> 0]

\* Node::new wrapped by NodeRef::new
Node_new(h, v) ==
    Append(h, [value |-> v, next |-> Null, previous |-> Null])

\* LinkedList::len
LinkedList_len(L) == L.size

\* LinkedList::push
LinkedList_push(L, v) ==
    LET h0 == Node_new(L.heap, v)
        new == Len(h0)
        old == L.tail
        h1 == IF L.size # 0 /\ old # Null
                THEN [h0 EXCEPT ![old].next = new]
                ELSE h0
    IN  [L EXCEPT !.heap = h1,
                  !.head = IF L.size = 0 \/ old = Null THEN new ELSE L.head,
                  !.tail = new,
                  !.size = L.size + 1]

\* The nodes reached from node n by following next.
RECURSIVE Reach(_, _)
Reach(h, n) == IF n = Null THEN {} ELSE {n} \cup Reach(h, h[n].next)

\* Rc::strong_count of node n while one local NodeRef to it exists: the
\* local one, head, tail, the head and tail of the other LinkedList that
\* shares the nodes (roots) and the next fields of the nodes still alive.
strong_count(h, head, tail, roots, n) ==
    LET held == <<head, tail>> \o roots
        alive == UNION {Reach(h, held[i]) : i \in 1..Len(held)}
    IN  1 + Cardinality({i \in 1..Len(held) : held[i] = n})
          + Cardinality({m \in alive : h[m].next = n})

\* LinkedList::pop that leaves tail alone when the last node is popped.
pop_keeps_tail(L) ==
    IF L.head = Null
      THEN [L EXCEPT !.opt = None]
      ELSE
        LET h == L.head
            next == L.heap[h].next
            h1 == [L.heap EXCEPT ![h].next = Null]
            L1 == [L EXCEPT !.heap = h1, !.head = next]
        IN  IF L.size = 0 /\ L.checks
              THEN [L1 EXCEPT !.panic = TRUE]
              ELSE [L1 EXCEPT !.size = L.size - 1, !.opt = h1[h].value]

\* LinkedList::pop. src/linked_list ends with NodeRef::extract_value,
\* whose Rc::try_unwrap(..).ok().expect(..) panics unless the popped
\* reference is the only one; src/doubly_linked_list clones the value.
LinkedList_pop(L) ==
    IF L.head = Null
      THEN [L EXCEPT !.opt = None]
      ELSE
        LET h == L.head
            next == L.heap[h].next
            h1 == [L.heap EXCEPT ![h].next = Null]
            head1 == next
            tail1 == IF next # Null THEN L.tail ELSE Null
            L1 == [L EXCEPT !.heap = h1, !.head = head1, !.tail = tail1]
        IN  IF L.size = 0 /\ L.checks
              THEN [L1 EXCEPT !.panic = TRUE]
            ELSE IF L.crate = "linked_list"
                    /\ strong_count(h1, head1, tail1, L.roots, h) # 1
              THEN [L1 EXCEPT !.size = L.size - 1, !.panic = TRUE]
            ELSE [L1 EXCEPT !.size = L.size - 1, !.opt = h1[h].value]

\* LinkedList::get: follow next index times from head.
RECURSIVE Follow(_, _, _)
Follow(h, current, n) ==
    IF n = 0 \/ current = Null
      THEN current
      ELSE Follow(h, h[current].next, n - 1)

LinkedList_get(L, index) ==
    LET current == Follow(L.heap, L.head, index)
    IN  IF current # Null THEN L.heap[current].value ELSE None

\* LinkedList::head
LinkedList_head(L) == IF L.head # Null THEN L.heap[L.head].value ELSE None

\* LinkedList::tail
LinkedList_tail(L) == IF L.tail # Null THEN L.heap[L.tail].value ELSE None

\* No clone of the LinkedList exists. ever records that one was made.
NoClone ==
    [live |-> FALSE, head |-> Null, tail |-> Null, size |-> 0,
     ever |-> FALSE]

\* #[derive(Clone)] on LinkedList: head and tail are cloned as Rc
\* pointers, so the new list holds the very nodes of the old one.
LinkedList_clone(L) ==
    [live |-> TRUE, head |-> L.head, tail |-> L.tail, size |-> L.size,
     ever |-> TRUE]

\* No LinkedListIterator exists. backs counts the next_back calls made.
\* The usize size is hi * 2^32 + size modulo 2^64, size being a two's
\* complement representative: [size |-> -1, hi |-> 0] is 2^64 - 1 and
\* [size |-> -1, hi |-> 1] is 2^32 - 1.
NoIter ==
    [live |-> FALSE, index |-> 0, size |-> 0, hi |-> 0,
     exhausted |-> FALSE, backs |-> 0]

\* `x as usize` for a u32 kept as its two's complement representative:
\* zero extension, so a wrapped u32 x < 0 becomes x + 2^32.
as_usize(x) == [size |-> x, hi |-> IF x < 0 THEN 1 ELSE 0]

\* IntoIterator::into_iter for &LinkedList
LinkedList_into_iter(L) ==
    [live |-> TRUE, index |-> 0, size |-> as_usize(L.size).size,
     hi |-> as_usize(L.size).hi, exhausted |-> FALSE, backs |-> 0]

\* Iterator::next of LinkedListIterator: [iter, opt, panic]
LinkedListIterator_next(I, L) ==
    [iter |-> [I EXCEPT !.index = I.index + 1],
     opt |-> LinkedList_get(L, I.index),
     panic |-> FALSE]

\* DoubleEndedIterator::next_back of LinkedListIterator: [iter, opt, panic].
\* get with a wrapped index, or with one of 2^32 + size, walks off the end
\* of the chain and yields None.
LinkedListIterator_next_back(I, L) ==
    IF I.exhausted
      THEN [iter |-> [I EXCEPT !.backs = I.backs + 1],
            opt |-> None, panic |-> FALSE]
    ELSE IF I.size = 0 /\ I.hi = 0 /\ L.checks
      THEN [iter |-> I, opt |-> None, panic |-> TRUE]
    ELSE
      LET s1 == I.size - 1
      IN  [iter |-> [I EXCEPT !.size = s1,
                              !.exhausted = (s1 = 0 /\ I.hi = 0),
                              !.backs = I.backs + 1],
           opt |-> LinkedList_get(L, s1),
           panic |-> FALSE]

\* The loop of LinkedList::delete: n times previous = current and
\* current = current.unwrap().next; the unwrap of None panics.
RECURSIVE Advance(_, _, _, _)
Advance(h, previous, current, n) ==
    IF n = 0
      THEN [previous |-> previous, current |-> current, panic |-> FALSE]
      ELSE IF current = Null
        THEN [previous |-> current, current |-> current, panic |-> TRUE]
        ELSE Advance(h, current, h[current].next, n - 1)

\* LinkedList::delete after its range check.
delete_at(L, index) ==
    LET previous0 == L.head
        current0 == L.heap[previous0].next
        head1 == IF index = 0 THEN current0 ELSE L.head
        a == IF index > 0
               THEN Advance(L.heap, previous0, current0, index - 1)
               ELSE [previous |-> previous0, current |-> current0,
                     panic |-> FALSE]
        new_next == IF a.current # Null THEN L.heap[a.current].next ELSE Null
        h1 == IF a.previous # Null
                THEN [L.heap EXCEPT ![a.previous].next = new_next]
                ELSE L.heap
        s1 == L.size - 1
        head2 == IF s1 = 0 THEN Null ELSE head1
        tail2 == IF s1 = 0 THEN Null
                 ELSE IF s1 = 1 THEN head2
                 ELSE IF ULess(1, s1) THEN a.previous
                 ELSE L.tail
    IN  IF a.panic
          THEN [L EXCEPT !.head = head1, !.panic = TRUE]
        ELSE [L EXCEPT !.heap = h1, !.head = head2, !.tail = tail2,
                       !.size = s1, !.res = "Ok"]

\* LinkedList::delete
LinkedList_delete(L, index) ==
    IF L.size = 0 /\ L.checks
      THEN [L EXCEPT !.panic = TRUE]
    ELSE IF ULess(L.size - 1, index)
      THEN [L EXCEPT !.res = "Err"]
    ELSE IF L.head = Null
      THEN [L EXCEPT !.panic = TRUE]
    ELSE delete_at(L, index)

\* ------------------------------------------------------------ BinaryTree
\* src/binary-tree/src/binary_tree.rs. A tree value T: [list, panic, opt];
\* list is the Vec adjaceny_list, element i of the Vec being list[i + 1].
BinaryTree_default == <<>>

\* Option<&Node>::None; the values stored in a tree are positive.
NoNode == [value |-> 0, index |-> 0, left |-> 0, right |-> 0]

\* Vec::get: the node at index, or NoNode.
get_at_index(l, index) == IF index < Len(l) THEN l[index + 1] ELSE NoNode

get_root_node(l) == get_at_index(l, 0)

\* Vec::insert, which panics when index > len.
Vec_insert(l, index, node) ==
    SubSeq(l, 1, index) \o <<node>> \o SubSeq(l, index + 1, Len(l))

\* BinaryTree::recursive_push: [list, panic]
RECURSIVE recursive_push(_, _, _)
recursive_push(l, target, current) ==
    IF target < current.value
      THEN LET x == get_at_index(l, current.left)
           IN  IF x # NoNode
                 THEN recursive_push(l, target, x)
               ELSE IF current.left > Len(l)
                 THEN [list |-> l, panic |-> TRUE]
               ELSE [list |-> Vec_insert(l, current.left,
                               [value |-> target, index |-> current.left,
                                left |-> current.left + 2,
                                right |-> current.left + 3]),
                     panic |-> FALSE]
      ELSE [list |-> l, panic |-> FALSE]

\* BinaryTree::push
BinaryTree_push(T, value) ==
    LET l1 == IF Len(T.list) = 0
                THEN Vec_insert(T.list, 0,
                       [value |-> value, index |-> 0, left |-> 1,
                        right |-> 2])
                ELSE T.list
        r == recursive_push(l1, value, get_root_node(l1))
    IN  [T EXCEPT !.list = r.list, !.panic = r.panic]

\* BinaryTree::recursive_get: the node found, or NoNode.
RECURSIVE recursive_get(_, _, _)
recursive_get(l, target, current) ==
    IF current.value = target
      THEN current
    ELSE IF target < current.value
      THEN LET next_node == get_at_index(l, current.left)
           IN  IF next_node # NoNode
                 THEN recursive_get(l, target, next_node)
                 ELSE NoNode
    ELSE NoNode

\* BinaryTree::get; the unwrap of the root panics on an empty tree.
BinaryTree_get(T, target) ==
    IF get_root_node(T.list) = NoNode
      THEN [T EXCEPT !.panic = TRUE]
      ELSE LET x == recursive_get(T.list, target, get_root_node(T.list))
           IN  [T EXCEPT !.opt = IF x # NoNode THEN x.value ELSE None]

\* BinaryTree::get_root; the unwrap of the root panics on an empty tree.
get_root(T) ==
    IF get_root_node(T.list) = NoNode
      THEN [T EXCEPT !.panic = TRUE]
      ELSE [T EXCEPT !.opt = get_root_node(T.list).value]

\* --------------------------------------------------- reference LRU cache
\* A recency-ordered sequence of <<key, value>>, most recently used first.
RefIdx(r, k) ==
    IF \E i \in 1..Len(r) : r[i][1] = k
      THEN CHOOSE i \in 1..Len(r) : r[i][1] = k
      ELSE 0

RefDrop(r, i) == SubSeq(r, 1, i - 1) \o SubSeq(r, i + 1, Len(r))

RefPut(r, lim, k, v) ==
    LET i == RefIdx(r, k)
    IN  IF i # 0 THEN <<(<<k, v>>)>> \o RefDrop(r, i)
        ELSE IF Len(r) >= lim THEN <<(<<k, v>>)>> \o SubSeq(r, 1, lim - 1)
        ELSE <<(<<k, v>>)>> \o r

RefGet(r, k) ==
    LET i == RefIdx(r, k)
    IN  IF i # 0 THEN <<r[i]>> \o RefDrop(r, i) ELSE r

RefRet(r, k) ==
    LET i == RefIdx(r, k)
    IN  IF i # 0 THEN r[i][2] ELSE None

\* -------------------------------------------------------------- the state
Cache ==
    [heap |-> heap, list |-> list, map |-> map, limit |-> limit,
     size |-> size, checks |-> overflow_checks, panic |-> panicked,
     ret |-> ret]

Resident(m) == {k \in Keys : m[k] # Null}

NoPromo == [key |-> 0, pending |-> {}]

Install(C) ==
    /\ heap' = C.heap
    /\ list' = C.list
    /\ map' = C.map
    /\ size' = C.size
    /\ panicked' = C.panic
    /\ ret' = C.ret
    /\ UNCHANGED <<limit, overflow_checks>>

NoCall == [op |-> "init", key |-> 0, val |-> 0]

\* LRU::init(limit) with limit in lims and LinkedList::default() of a crate
\* in crates, under either build profile, followed by at most b calls.
BootWith(b, lims, crates) ==
    /\ budget = b
    /\ limit \in lims
    /\ overflow_checks \in BOOLEAN
    /\ heap = LRU_init(limit, overflow_checks).heap
    /\ list = LRU_init(limit, overflow_checks).list
    /\ map = LRU_init(limit, overflow_checks).map
    /\ size = LRU_init(limit, overflow_checks).size
    /\ panicked = LRU_init(limit, overflow_checks).panic
    /\ ret = None
    /\ last = NoCall
    /\ before = NoCall
    /\ ref = <<>>
    /\ promo = NoPromo
    /\ nops = 0
    /\ lnodes = <<>>
    /\ ll = LinkedList_default
    /\ lret = "None"
    /\ krate \in crates
    /\ lopt = None
    /\ shadow = <<>>
    /\ iter = NoIter
    /\ cloned = NoClone
    /\ tree = BinaryTree_default
    /\ pushed = <<>>
    /\ tret = None

Boot(b, lims) == BootWith(b, lims, {"doubly_linked_list"})

Start(b) == Boot(b, 1..MaxLimit)

Init == Start(MaxOps)

InitDeep == Start(MaxOpsDeep)

\* LRU::init(0)
InitZero == Boot(MaxOps, {0})

\* lru.add(key, value)
Add(key, value) ==
    /\ ~panicked
    /\ nops < budget
    /\ Install([add(Cache, key, value) EXCEPT !.ret = ret])
    /\ last' = [op |-> "add", key |-> key, val |-> value]
    /\ before' = last
    /\ ref' = RefPut(ref, limit, key, value)
    /\ promo' = IF promo = NoPromo \/ map[key] # Null
                     \/ map'[promo.key] = Null
                  THEN NoPromo
                  ELSE [promo EXCEPT
                          !.pending = @ \ (Resident(map) \ Resident(map'))]
    /\ nops' = nops + 1
    /\ UNCHANGED <<budget, lvars, tvars>>

\* lru.get(key)
Get(key) ==
    /\ ~panicked
    /\ nops < budget
    /\ Install(get(Cache, key))
    /\ last' = [op |-> "get", key |-> key, val |-> 0]
    /\ before' = last
    /\ ref' = RefGet(ref, key)
    /\ promo' = IF map[key] # Null
                  THEN [key |-> key, pending |-> Resident(map) \ {key}]
                  ELSE NoPromo
    /\ nops' = nops + 1
    /\ UNCHANGED <<budget, lvars, tvars>>

Next ==
    \/ \E key \in Keys, value \in Vals : Add(key, value)
    \/ \E key \in Keys : Get(key)

Spec == Init /\ [][Next]_vars

\* The same cache driven through longer call sequences.
SpecDeep == InitDeep /\ [][Next]_vars

\* The cache constructed with limit == 0.
SpecZero == InitZero /\ [][Next]_vars

\* ------------------------------------------------- the LinkedList state
cvars == <<heap, list, map, limit, size, ret, ref, promo>>

\* The head and tail a LinkedList handle holds, as references to count.
Held(c) == IF c.live THEN <<c.head, c.tail>> ELSE <<>>

List ==
    [heap |-> lnodes, head |-> ll.head, tail |-> ll.tail, size |-> ll.size,
     checks |-> overflow_checks, panic |-> panicked, res |-> lret,
     crate |-> krate, opt |-> lopt, roots |-> Held(cloned)]

InstallList(L) ==
    /\ lnodes' = L.heap
    /\ ll' = [head |-> L.head, tail |-> L.tail, size |-> L.size]
    /\ panicked' = L.panic
    /\ lret' = L.res
    /\ lopt' = L.opt
    /\ iter' = NoIter
    /\ UNCHANGED <<cvars, tvars, overflow_checks, budget, krate, cloned>>

\* LinkedList::default() of either crate, under either build profile.
InitList == BootWith(MaxListOps, {1}, Crates)

\* The sequence without its element at position i (1-based).
RemoveAt(seq, i) == SubSeq(seq, 1, i - 1) \o SubSeq(seq, i + 1, Len(seq))

\* linked_list.push(v)
Push(v) ==
    /\ ~panicked
    /\ nops < budget
    /\ InstallList([LinkedList_push(List, v) EXCEPT
                       !.res = "None", !.opt = None])
    /\ shadow' = Append(shadow, v)
    /\ last' = [op |-> "push", key |-> 0, val |-> v]
    /\ before' = last
    /\ nops' = nops + 1

\* linked_list.delete(index)
Delete(index) ==
    /\ ~panicked
    /\ nops < budget
    /\ InstallList(LinkedList_delete([List EXCEPT
                       !.res = "None", !.opt = None], index))
    /\ shadow' = IF index < Len(shadow)
                   THEN RemoveAt(shadow, index + 1)
                   ELSE shadow
    /\ last' = [op |-> "delete", key |-> index, val |-> 0]
    /\ before' = last
    /\ nops' = nops + 1

\* linked_list.pop()
Pop ==
    /\ ~panicked
    /\ nops < budget
    /\ InstallList(LinkedList_pop([List EXCEPT
                       !.res = "None", !.opt = None]))
    /\ shadow' = IF shadow = <<>> THEN shadow ELSE Tail(shadow)
    /\ last' = [op |-> "pop", key |-> 0, val |-> 0]
    /\ before' = last
    /\ nops' = nops + 1

\* The clone as the list a call acts on; the original holds the roots.
Cloned ==
    [heap |-> lnodes, head |-> cloned.head, tail |-> cloned.tail,
     size |-> cloned.size, checks |-> overflow_checks, panic |-> panicked,
     res |-> "None", crate |-> krate, opt |-> None,
     roots |-> <<ll.head, ll.tail>>]

InstallClone(L) ==
    /\ lnodes' = L.heap
    /\ cloned' = [cloned EXCEPT !.head = L.head, !.tail = L.tail,
                                !.size = L.size]
    /\ panicked' = L.panic
    /\ lret' = L.res
    /\ lopt' = L.opt
    /\ UNCHANGED <<cvars, tvars, overflow_checks, budget, krate, ll, iter,
                   shadow>>

\* let c = linked_list.clone(), with no other clone alive
Clone ==
    /\ ~panicked
    /\ nops < budget
    /\ ~cloned.live
    /\ cloned' = LinkedList_clone(List)
    /\ last' = [op |-> "clone", key |-> 0, val |-> 0]
    /\ before' = last
    /\ nops' = nops + 1
    /\ UNCHANGED <<cvars, tvars, overflow_checks, panicked, budget, krate,
                   lnodes, ll, lret, lopt, shadow, iter>>

\* c.push(v)
ClonePush(v) ==
    /\ ~panicked
    /\ nops < budget
    /\ cloned.live
    /\ InstallClone(LinkedList_push(Cloned, v))
    /\ last' = [op |-> "c.push", key |-> 0, val |-> v]
    /\ before' = last
    /\ nops' = nops + 1

\* c.pop()
ClonePop ==
    /\ ~panicked
    /\ nops < budget
    /\ cloned.live
    /\ InstallClone(LinkedList_pop(Cloned))
    /\ last' = [op |-> "c.pop", key |-> 0, val |-> 0]
    /\ before' = last
    /\ nops' = nops + 1

\* c.delete(index)
CloneDelete(index) ==
    /\ ~panicked
    /\ nops < budget
    /\ cloned.live
    /\ InstallClone(LinkedList_delete(Cloned, index))
    /\ last' = [op |-> "c.delete", key |-> index, val |-> 0]
    /\ before' = last
    /\ nops' = nops + 1

\* drop(c): the clone's head and tail references are released.
DropClone ==
    /\ ~panicked
    /\ nops < budget
    /\ cloned.live
    /\ cloned' = [NoClone EXCEPT !.ever = TRUE]
    /\ last' = [op |-> "drop", key |-> 0, val |-> 0]
    /\ before' = last
    /\ nops' = nops + 1
    /\ UNCHANGED <<cvars, tvars, overflow_checks, panicked, budget, krate,
                   lnodes, ll, lret, lopt, shadow, iter>>

\* (&linked_list).into_iter(); src/linked_list has the same iterator
\* without next_back.
IntoIter ==
    /\ ~panicked
    /\ nops < budget
    /\ iter' = LinkedList_into_iter(List)
    /\ lopt' = None
    /\ last' = [op |-> "into_iter", key |-> 0, val |-> 0]
    /\ before' = last
    /\ nops' = nops + 1
    /\ UNCHANGED <<cvars, tvars, overflow_checks, panicked, budget, krate, lnodes,
                   ll, lret, shadow, cloned>>

\* One call on the live iterator, with outcome r.
IterCall(r, op) ==
    /\ iter' = r.iter
    /\ lopt' = r.opt
    /\ panicked' = r.panic
    /\ last' = [op |-> op, key |-> 0, val |-> 0]
    /\ before' = last
    /\ nops' = nops + 1
    /\ UNCHANGED <<cvars, tvars, overflow_checks, budget, krate, lnodes, ll, lret,
                   shadow, cloned>>

\* iter.next()
IterNext ==
    /\ ~panicked
    /\ nops < budget
    /\ iter.live
    /\ IterCall(LinkedListIterator_next(iter, List), "next")

\* iter.next_back(), which only src/doubly_linked_list has
NextBack ==
    /\ ~panicked
    /\ nops < budget
    /\ iter.live
    /\ krate = "doubly_linked_list"
    /\ IterCall(LinkedListIterator_next_back(iter, List), "next_back")

\* Lists built by push and read through an iterator.
NextIter ==
    \/ \E v \in Vals : Push(v)
    \/ IntoIter
    \/ IterNext
    \/ NextBack

InitIter == BootWith(MaxListOps, {1}, {"doubly_linked_list"})

SpecIter == InitIter /\ [][NextIter]_vars

\* Every call on the list, on a clone of it and on an iterator over it.
NextList ==
    \/ \E v \in Vals : Push(v)
    \/ \E index \in 0..MaxIndex : Delete(index)
    \/ Pop
    \/ Clone
    \/ \E v \in Vals : ClonePush(v)
    \/ ClonePop
    \/ \E index \in 0..MaxIndex : CloneDelete(index)
    \/ DropClone
    \/ IntoIter
    \/ IterNext
    \/ NextBack

SpecList == InitList /\ [][NextList]_vars

\* The nodes met by following next from node n, stopping at a repeat.
RECURSIVE Walk(_, _, _)
Walk(h, n, seen) ==
    IF n = Null \/ n \in seen
      THEN <<>>
      ELSE <<n>> \o Walk(h, h[n].next, seen \cup {n})

\* The recency list as the sequence of nodes reachable from head.
Chain(h, L) == Walk(h, L.head, {})

\* ------------------------------- the DoublyLinkedList used on its own
\* The recency list driven through its own methods, as test::init_list does.
DList == WithList(Cache)

\* The nodes linked into the list: met from head by next, or the tail.
Linked(h, L) ==
    LET c == Chain(h, L)
    IN  {c[i] : i \in 1..Len(c)} \cup ({L.tail} \ {Null})

InstallDList(L, op, key, value) ==
    /\ heap' = L.heap
    /\ list' = [head |-> L.head, tail |-> L.tail, size |-> L.size]
    /\ panicked' = L.panic
    /\ last' = [op |-> op, key |-> key, val |-> value]
    /\ before' = last
    /\ nops' = nops + 1
    /\ UNCHANGED <<map, limit, size, ret, ref, promo, overflow_checks,
                   budget, lvars, tvars>>

\* list.insert((key, value))
ListInsert(key, value) ==
    /\ ~panicked
    /\ nops < budget
    /\ InstallDList(insert(DList, key, value), "insert", key, value)

\* list.requeue_node(node) for a node linked into the list
ListRequeue(node) ==
    /\ ~panicked
    /\ nops < budget
    /\ node \in Linked(heap, list)
    /\ InstallDList(requeue_node(DList, node), "requeue", node, 0)

\* list.remove()
ListRemove ==
    /\ ~panicked
    /\ nops < budget
    /\ InstallDList(remove(DList), "remove", 0, 0)

\* 1 for true and 0 for false, as the call record keeps new_node.
Flag(b) == IF b THEN 1 ELSE 0

\* list.insert_node(NodeRef::init(key, value), new_node), called directly:
\* the record of the call holds the node and new_node.
ListInsertNode(key, value, new_node) ==
    /\ ~panicked
    /\ nops < budget
    /\ LET h0 == NodeRef_init(heap, key, value)
       IN  InstallDList(insert_node([DList EXCEPT !.heap = h0], Len(h0),
                                    new_node),
                        "insert_node", Len(h0), Flag(new_node))

\* list.insert_node(node, new_node) for a node made earlier, whether or
\* not the list still links it
ListReinsertNode(node, new_node) ==
    /\ ~panicked
    /\ nops < budget
    /\ node \in 1..Len(heap)
    /\ InstallDList(insert_node(DList, node, new_node),
                    "insert_node", node, Flag(new_node))

NextDList ==
    \/ \E key \in Keys, value \in Vals : ListInsert(key, value)
    \/ \E key \in Keys, value \in Vals, new_node \in BOOLEAN :
         ListInsertNode(key, value, new_node)
    \/ \E node \in 1..MaxOps, new_node \in BOOLEAN :
         ListReinsertNode(node, new_node)
    \/ \E node \in 1..MaxOps : ListRequeue(node)
    \/ ListRemove

SpecDList == Init /\ [][NextDList]_vars

\* ------------------------------------------------- the BinaryTree state
Tree == [list |-> tree, panic |-> panicked, opt |-> None]

InstallTree(T, op, value) ==
    /\ ~panicked
    /\ nops < budget
    /\ tree' = T.list
    /\ panicked' = T.panic
    /\ tret' = T.opt
    /\ last' = [op |-> op, key |-> 0, val |-> value]
    /\ before' = last
    /\ nops' = nops + 1
    /\ UNCHANGED <<cvars, lvars, overflow_checks, budget>>

\* btree.push(value)
TreePush(value) ==
    /\ InstallTree(BinaryTree_push(Tree, value), "tree_push", value)
    /\ pushed' = Append(pushed, value)

\* btree.get(&target)
TreeGet(target) ==
    /\ InstallTree(BinaryTree_get(Tree, target), "tree_get", target)
    /\ UNCHANGED pushed

\* btree.get_root()
TreeGetRoot ==
    /\ InstallTree(get_root(Tree), "get_root", 0)
    /\ UNCHANGED pushed

NextTree ==
    \/ \E value \in TreeVals : TreePush(value)
    \/ \E target \in TreeVals : TreeGet(target)
    \/ TreeGetRoot

\* BinaryTree::default()
InitTree == Boot(MaxOps, {1})

SpecTree == InitTree /\ [][NextTree]_vars

\* The LinkedList used as a queue: push and pop only, and no clone of it.
NextQueue ==
    \/ \E v \in Vals : Push(v)
    \/ Pop

SpecQueue == InitList /\ [][NextQueue]_vars

\* ------------------------------------------------------ derived notions
Without(seq, x) == SelectSeq(seq, LAMBDA y : y # x)

\* Only adds so far (every add allocates one node), all with distinct keys.
OnlyDistinctAdds ==
    /\ nops = Len(heap)
    /\ \A i, j \in 1..Len(heap) : heap[i].key = heap[j].key => i = j

\* Keys evicted by the step: resident before, not resident after.
Evicted == Resident(map) \ Resident(map')

IsAdd == last'.op = "add"
IsGet == last'.op = "get"

\* ------------------------------------------------------------- claims
\* C1: every get returns what a reference LRU cache of capacity limit
\* returns on the same sequence of calls.
C1_RefinesReference ==
    [][IsGet => ret' = RefRet(ref, last'.key)]_vars

\* C2: an add of a non-resident key at size == limit evicts exactly one
\* entry, the tail of the recency list, removes its key from the map and
\* leaves size == limit with the new key resident.
C2_EvictsTail ==
    [][(IsAdd /\ map[last'.key] = Null /\ size = limit) =>
         /\ list.tail # Null
         /\ Evicted = {heap[list.tail].key}
         /\ map[heap[list.tail].key] = list.tail
         /\ ~(\E i \in 1..Len(Chain(heap', list')) :
                 Chain(heap', list')[i] = list.tail)
         /\ size' = limit
         /\ map'[last'.key] # Null]_vars

\* C3: after get(key) promotes key, while only new keys are added, key is
\* not evicted before every other key resident at the get was evicted.
C3_PromotedOutlivesOthers ==
    [][(IsAdd /\ promo # NoPromo /\ map[last'.key] = Null
          /\ promo.key \in Evicted) => promo.pending = {}]_vars

\* C4: an add of a resident key stores the value in the existing entry
\* and moves that entry to the head of the recency list.
C4_ResidentAddUpdates ==
    [][(IsAdd /\ map[last'.key] # Null) =>
         /\ map'[last'.key] = map[last'.key]
         /\ heap'[map[last'.key]].val = last'.val
         /\ list'.head = map[last'.key]]_vars

\* C5: an add of a resident key leaves size and the key set of the map
\* unchanged and evicts nothing from the recency list.
C5_ResidentAddFrame ==
    [][(IsAdd /\ map[last'.key] # Null) =>
         /\ size' = size
         /\ Resident(map') = Resident(map)
         /\ list'.size = list.size
         /\ \A i \in 1..Len(Chain(heap, list)) :
               \E j \in 1..Len(Chain(heap', list')) :
                 Chain(heap', list')[j] = Chain(heap, list)[i]]_vars

\* C6: a get of a resident key returns its stored value and leaves its
\* entry at the head with all other entries in their previous order.
C6_GetHitPromotes ==
    [][(IsGet /\ map[last'.key] # Null) =>
         /\ ret' = heap[map[last'.key]].val
         /\ list'.head = map[last'.key]
         /\ Chain(heap', list') =
               <<map[last'.key]>> \o Without(Chain(heap, list), map[last'.key])]_vars

\* C7: a get of a key that is not in the map returns None and changes
\* neither the map, nor the recency list and its links, nor size.
C7_GetMissFrame ==
    [][(IsGet /\ map[last'.key] = Null) =>
         /\ ret' = None
         /\ map' = map
         /\ list' = list
         /\ heap' = heap
         /\ size' = size
         /\ ~panicked']_vars

C7_Witness ==
    /\ last.op = "get"
    /\ map[last.key] = Null
    /\ ret = None
    /\ Len(Chain(heap, list)) >= 2

\* C8: a get(key) made right after add(key, v) returns Some(v).
C8_GetAfterAdd ==
    last.op = "add" =>
        /\ ~panicked
        /\ get(Cache, last.key).ret = last.val
        /\ ~get(Cache, last.key).panic

C8_Witness ==
    /\ last.op = "add"
    /\ size = limit
    /\ \E i \in 1..(Len(heap) - 1) :
          heap[i].key = last.key /\ heap[i].val # last.val
    /\ get(Cache, last.key).ret = last.val

\* C9: after n > limit adds of pairwise distinct keys to a fresh cache,
\* size == limit, exactly the last limit keys are resident and get
\* returns None for each of the first n - limit keys.
C9_EvictsInInsertionOrder ==
    (OnlyDistinctAdds /\ Len(heap) > limit) =>
        /\ size = limit
        /\ Resident(map) =
              {heap[i].key : i \in (Len(heap) - limit + 1)..Len(heap)}
        /\ \A i \in 1..(Len(heap) - limit) :
              get(Cache, heap[i].key).ret = None

\* C10: after n <= limit adds of pairwise distinct keys to a fresh cache,
\* size == n and every added key is resident.
C10_FillBelowLimit ==
    (OnlyDistinctAdds /\ Len(heap) <= limit) =>
        /\ size = Len(heap)
        /\ \A i \in 1..Len(heap) : map[heap[i].key] # Null

C10_Witness ==
    /\ OnlyDistinctAdds
    /\ Len(heap) = limit
    /\ limit >= 2
    /\ size = limit
\* C11: gets of the same key made in a row return the same result, and
\* no get changes size.
C11_RepeatedGet ==
    [][IsGet =>
         /\ size' = size
         /\ (last.op = "get" /\ last.key = last'.key) => ret' = ret]_vars

C11_Witness ==
    /\ last.op = "get"
    /\ before.op = "get"
    /\ before.key = last.key
    /\ ret # None

\* C12: the map and the recency list are in 1:1 correspondence: every key
\* of the map maps to a node reachable from head that carries the key, and
\* every node reachable from head is the node its key maps to.
C12_MapListCorrespondence ==
    LET chain == Chain(heap, list)
        nodes == {chain[i] : i \in 1..Len(chain)}
    IN  /\ \A k \in Resident(map) : map[k] \in nodes /\ heap[map[k]].key = k
        /\ \A n \in nodes : map[heap[n].key] = n

\* C13: size equals the number of keys in the map and the number of
\* nodes reachable from head.
C13_SizesAgree ==
    /\ size = Cardinality(Resident(map))
    /\ size = Len(Chain(heap, list))

\* C14: size <= limit after every add and get.
C14_SizeWithinLimit == size <= limit

C14_Witness ==
    /\ last.op = "add"
    /\ limit >= 2
    /\ size = limit
    /\ Len(heap) > limit
    /\ Cardinality(Resident(map)) = limit

\* C15: the number of keys for which get would return Some never exceeds
\* limit.
C15_ResidentWithinLimit ==
    Cardinality({k \in Keys : get(Cache, k).ret # None}) <= limit

\* C16: when the recency list is non-empty, the head node has no prev
\* and the tail node has no next.
C16_EndsUnlinked ==
    list.head # Null =>
        /\ heap[list.head].prev = Null
        /\ list.tail # Null => heap[list.tail].next = Null

\* C17: size == 0 implies head and tail are None; size == 1 implies head
\* and tail are the same node.
C17_SmallSizes ==
    /\ size = 0 => (list.head = Null /\ list.tail = Null)
    /\ size = 1 => (list.head # Null /\ list.tail = list.head)

\* C18: with limit >= 1 no call panics (no usize underflow of LRU.size or
\* DoublyLinkedList.size).
C18_NoPanic == limit >= 1 => ~panicked

C18_Witness ==
    /\ overflow_checks
    /\ OnlyDistinctAdds
    /\ Len(heap) > limit
    /\ ~panicked

\* C19: with limit == 0 every add completes normally and leaves
\* size == 0.
C19_ZeroLimitStaysEmpty ==
    limit = 0 => (~panicked /\ size = 0)
\* The values get(0), get(1), ... of a list value, as far as len() says.
Items(L) ==
    [i \in 1..(IF L.size > 0 THEN L.size ELSE 0) |-> LinkedList_get(L, i - 1)]

Last(seq) == IF Len(seq) = 0 THEN None ELSE seq[Len(seq)]

First(seq) == IF Len(seq) = 0 THEN None ELSE seq[1]

\* C20: delete(index) with index < len, on a list that holds len elements
\* and was never cloned, returns Ok and removes exactly the element at
\* index: len decreases by one, get(i) yields the former elements without
\* position index and None past them, head() is the first and tail() the
\* last of them.
C20_DeleteRemovesIndex ==
    [][(last'.op = "delete" /\ last'.key < ll.size /\ ~cloned.ever
          /\ \A i \in 1..Len(Items(List)) : Items(List)[i] # None) =>
         /\ ~panicked'
         /\ lret' = "Ok"
         /\ LinkedList_len(List') = LinkedList_len(List) - 1
         /\ Items(List') = RemoveAt(Items(List), last'.key + 1)
         /\ LinkedList_get(List', ll'.size) = None
         /\ LinkedList_head(List') = First(Items(List'))
         /\ LinkedList_tail(List') = Last(Items(List'))]_vars

\* C21: delete(index) with index >= len, the empty list included, returns
\* Err(IndexOutOfRangeError) without panicking and leaves the list unchanged.
C21_DeleteOutOfRange ==
    [][(last'.op = "delete" /\ ~ULess(last'.key, ll.size)) =>
         /\ ~panicked'
         /\ lret' = "Err"
         /\ lnodes' = lnodes
         /\ ll' = ll]_vars

\* C22: pop removes and returns the head. With pushes and pops only, pop
\* returns the oldest element still held (so n pops after n pushes onto an
\* empty list return the pushed values in order) and decreases len by one;
\* once every element is popped the list is empty with head() and tail()
\* None, and a further pop returns None and changes nothing.
C22_PopReturnsHead ==
    [][(last'.op = "pop") =>
         /\ ~panicked'
         /\ lopt' = First(shadow)
         /\ shadow # <<>> =>
              LinkedList_len(List') = LinkedList_len(List) - 1
         /\ shadow = <<>> => (ll' = ll /\ lnodes' = lnodes)
         /\ shadow' = <<>> =>
              /\ LinkedList_len(List') = 0
              /\ LinkedList_head(List') = None
              /\ LinkedList_tail(List') = None]_vars

\* Two pushes onto the empty list of src/linked_list, then two pops.
C22_Witness ==
    /\ krate = "linked_list"
    /\ nops = 4
    /\ Len(lnodes) = 2
    /\ last.op = "pop"
    /\ before.op = "pop"
    /\ shadow = <<>>
    /\ lopt # None
    /\ ~panicked

\* C23: after any interleaving of push, pop and delete, and no other call,
\* the list holds the sequence that should remain (push appends at the end):
\* len() is its length, get(i) is its element i and None past the end,
\* head() is its first and tail() its last element.
C23_MatchesSequence ==
    (~panicked /\ ~cloned.ever) =>
      /\ LinkedList_len(List) = Len(shadow)
      /\ \A i \in 0..MaxListOps :
           LinkedList_get(List, i) =
             (IF i < Len(shadow) THEN shadow[i + 1] ELSE None)
      /\ LinkedList_head(List) = First(shadow)
      /\ LinkedList_tail(List) = Last(shadow)

\* C24: on a fresh iterator over a list of n >= 0 elements, the k-th call
\* of next_back (k <= n) yields element n - k + 1, the last pushed first,
\* every later call yields None, and no call panics, n == 0 included.
C24_NextBackReverses ==
    [][(last'.op = "next_back" /\ iter.index = 0) =>
         /\ ~panicked'
         /\ lopt' = (IF iter.backs < Len(shadow)
                       THEN shadow[Len(shadow) - iter.backs]
                       ELSE None)]_vars

\* C25: after any sequence of BinaryTree::push calls, get_root returns the
\* first pushed value and get(&v) returns Some(&v) for every pushed v,
\* smaller or larger than the root.
C25_TreeHoldsPushed ==
    (~panicked /\ pushed # <<>>) =>
      /\ ~get_root(Tree).panic
      /\ get_root(Tree).opt = pushed[1]
      /\ \A i \in 1..Len(pushed) :
           /\ ~BinaryTree_get(Tree, pushed[i]).panic
           /\ BinaryTree_get(Tree, pushed[i]).opt = pushed[i]

\* The node handed to requeue_node by the step, if any.
Requeued ==
    IF last'.op = "requeue" THEN last'.key
    ELSE IF last'.op = "get" THEN map[last'.key]
    ELSE Null

\* No node of the heap is its own next or prev.
NoSelfLink(h) ==
    \A n \in 1..Len(h) : h[n].next # n /\ h[n].prev # n

\* C26: requeue_node(entry) on a list of at least two entries, entry being
\* its head, its tail or an interior node, puts entry at the head with its
\* value unchanged, keeps the other entries in their order, the list size
\* and the set of entries, leaves tail at the last entry and links no node
\* to itself. The entries carry pairwise distinct keys.
C26_RequeueMovesToHead ==
    [][(/\ last'.op = "requeue"
        /\ Len(Chain(heap, list)) >= 2
        /\ Len(Chain(heap, list)) = list.size
        /\ \A m, n \in Linked(heap, list) :
             heap[m].key = heap[n].key => m = n
        /\ Requeued \in Linked(heap, list)) =>
         /\ ~panicked'
         /\ Chain(heap', list') =
              <<Requeued>> \o Without(Chain(heap, list), Requeued)
         /\ list'.size = list.size
         /\ heap'[Requeued].key = heap[Requeued].key
         /\ heap'[Requeued].val = heap[Requeued].val
         /\ list'.tail = Chain(heap', list')[list.size]
         /\ NoSelfLink(heap')]_vars

\* C27: requeueing the only entry of a one-element list, as get of the sole
\* resident key does, leaves a one-element list with head and tail both the
\* entry and the entry's prev and next both absent.
C27_RequeueSoleEntry ==
    [][(/\ Requeued # Null
        /\ list.size = 1
        /\ Chain(heap, list) = <<Requeued>>) =>
         /\ ~panicked'
         /\ list'.size = 1
         /\ list'.head = Requeued
         /\ list'.tail = Requeued
         /\ heap'[Requeued].prev = Null
         /\ heap'[Requeued].next = Null]_vars

\* C28: insert, and insert_node called with a new entry and new_node =
\* true, makes the new entry the head with no predecessor, makes the
\* former head (if any) its successor with prev pointing back at it, adds
\* one to the list size, and makes the entry the tail too if the list was
\* empty.
C28_InsertAtHead ==
    [][(\/ last'.op = "insert"
        \/ /\ last'.op = "insert_node"
           /\ last'.val = Flag(TRUE)
           /\ last'.key = Len(heap) + 1) =>
         LET entry == Len(heap')
         IN  /\ ~panicked'
             /\ Len(heap') = Len(heap) + 1
             /\ list'.head = entry
             /\ heap'[entry].prev = Null
             /\ heap'[entry].next = list.head
             /\ list.head # Null => heap'[list.head].prev = entry
             /\ list'.size = list.size + 1
             /\ (list.size = 0 /\ list.head = Null) =>
                  list'.tail = entry]_vars

\* C29: remove on a list of n >= 1 entries detaches the tail, makes its
\* predecessor the new tail with no successor, takes one off the list size,
\* and clears head and tail when the list becomes empty; on an empty list
\* it changes nothing.
C29_RemoveDetachesTail ==
    [][(last'.op = "remove") =>
         /\ ~panicked'
         /\ list.size = 0 => (list' = list /\ heap' = heap)
         /\ list.size >= 1 =>
              /\ list'.size = list.size - 1
              /\ list.tail # Null =>
                   /\ list'.tail = heap[list.tail].prev
                   /\ heap'[list.tail].prev = Null
                   /\ list'.tail # Null => heap'[list'.tail].next = Null
              /\ list'.size = 0 =>
                   (list'.head = Null /\ list'.tail = Null)]_vars

\* C30: get, hit or miss, changes only the recency position: the resident
\* keys, the value stored for each key, the number of entries in the
\* recency list and size are the same before and after.
C30_GetFrame ==
    [][IsGet =>
         /\ ~panicked'
         /\ Resident(map') = Resident(map)
         /\ \A k \in Resident(map) :
              heap'[map'[k]].val = heap[map[k]].val
         /\ size' = size
         /\ list'.size = list.size
         /\ Len(Chain(heap', list')) = Len(Chain(heap, list))]_vars

\* The value passed to the most recent add(k, _): every add allocates one
\* node, in call order, and no node's value is written afterwards.
LatestAdded(k) ==
    LET adds == {i \in 1..Len(heap) : heap[i].key = k}
    IN  IF adds = {} THEN None
        ELSE heap[CHOOSE i \in adds : \A j \in adds : j <= i].val

\* C31: for limit >= 1, whenever get(k) returns Some(v), v is the value
\* passed to the most recent add(k, _): never a stale value, never the
\* value of another key.
C31_GetReturnsLatest ==
    (limit >= 1 /\ last.op = "get" /\ ret # None) =>
      ret = LatestAdded(last.key)

\* get(k) answered after k was added twice with different values while
\* another key was added as well.
C31_Witness ==
    /\ last.op = "get"
    /\ ret # None
    /\ \E i, j \in 1..Len(heap) :
         /\ i < j
         /\ heap[i].key = last.key
         /\ heap[j].key = last.key
         /\ heap[i].val # heap[j].val
    /\ \E i \in 1..Len(heap) : heap[i].key # last.key

\* C32: get is idempotent on the whole cache state: a get(k) that follows
\* a get(k) immediately leaves the map, head, tail, every next and prev
\* link and both size counters as the first get(k) left them.
C32_GetIdempotent ==
    [][(IsGet /\ last.op = "get" /\ last.key = last'.key) =>
         /\ ~panicked'
         /\ map' = map
         /\ list' = list
         /\ heap' = heap
         /\ size' = size]_vars

\* The nodes met by following prev from node n, stopping at a repeat.
RECURSIVE WalkBack(_, _, _)
WalkBack(h, n, seen) ==
    IF n = Null \/ n \in seen
      THEN <<>>
      ELSE <<n>> \o WalkBack(h, h[n].prev, seen \cup {n})

\* The nodes linked into the recency list: met from head by next or from
\* tail by prev.
LinkedNodes ==
    LET f == Chain(heap, list)
        b == WalkBack(heap, list.tail, {})
    IN  {f[i] : i \in 1..Len(f)} \cup {b[i] : i \in 1..Len(b)}

\* C33: after every add and get the recency list is a well-formed doubly
\* linked chain: following next from head visits distinct nodes and ends at
\* tail (no cycle, no self-link), and n.next == m implies m.prev == n, so
\* following prev from tail visits the same nodes in reverse.
C33_WellFormedChain ==
    LET c == Chain(heap, list)
    IN  /\ c = <<>> => list.tail = Null
        /\ c # <<>> =>
             /\ heap[c[Len(c)]].next = Null
             /\ list.tail = c[Len(c)]
             /\ heap[c[1]].prev = Null
             /\ \A i \in 1..(Len(c) - 1) : heap[c[i + 1]].prev = c[i]

\* C34: after every add and get no two nodes linked into the recency list
\* carry the same key.
C34_LinkedKeysDistinct ==
    \A m, n \in LinkedNodes : heap[m].key = heap[n].key => m = n

\* C35: after every add and get (limit >= 1) the list's own counter equals
\* the cache's counter.
C35_CountersAgree ==
    limit >= 1 => list.size = size

\* C36: BinaryTree::push, get and get_root never panic, and get and
\* get_root on an empty tree return None.
C36_TreeNeverPanics ==
    /\ ~panicked
    /\ (last.op \in {"tree_get", "get_root"} /\ tree = <<>>) => tret = None
====
